---- MODULE Spec2Model ----
(***************************************************************************)
(* Completion tracking and limit evaluation of the task front end:         *)
(*   - TaskService (submitTask, recordTaskCompletion, getTaskCompletions,  *)
(*     getCurrentUserId) over the IndexedDB table db.taskCompletions,      *)
(*   - the useTaskCooldown hook (checkLimits, its effect and its interval),*)
(*   - the task completion store the two share (completions, lastUpdate,   *)
(*     updateCompletions, clearStaleData).                                 *)
(*                                                                         *)
(* Time is Date.now() in milliseconds, counted from a local midnight, so   *)
(* that local midnights are the multiples of DAY_MS.  The clock moves      *)
(* between the instants of Instants, which are chosen to sit on and next   *)
(* to every boundary the code compares against.  The clock does not move   *)
(* while an IndexedDB operation is in flight or a React effect is waiting  *)
(* to run: those complete within one clock reading.  Remote calls          *)
(* (api.post, the profile lookup) take arbitrarily long.                   *)
(***************************************************************************)
EXTENDS Integers, Sequences, FiniteSets, TLC

VARIABLES now, user, log, completions, lastUpdate, calls,
          mounted, props, limits, eff, intervals, pending, info, probe

vars == <<now, user, log, completions, lastUpdate, calls,
          mounted, props, limits, eff, intervals, pending, info, probe>>

\* now         Date.now()
\* user        user?.id of the AuthContext and of the token; 0 when signed out
\* log         the table db.taskCompletions, in insertion order
\* completions the store's map from `${taskId}-${userId}` to its entry
\* lastUpdate  the store's lastUpdate
\* calls       the calls of TaskService.submitTask, each at one of its awaits
\* mounted, props, limits, eff, pending, info
\*             per TaskCard: whether it is rendered, its task and limits, the
\*             TaskLimits state of its hook, the closure and interval of the
\*             last effect run, the evaluations awaiting the table, and where
\*             the statistics of the published decision came from
\* intervals   per TaskCard, the intervals set and not cleared, each the closure
\*             its checkLimits runs with
\* probe       the arguments and the result of one function applied on its own,
\*             or the mark of a specification that keeps, next to each
\*             decision, the record of how it was arrived at (AuditProbe)

-----------------------------------------------------------------------------
(* Bounds of the model *)

MaxTask == 1
MaxUser == 2
MaxSubs == 2
MaxCalls == 2
MaxLog == 2
MaxPending == 1
MaxUpdates == 2

Tasks == 1..MaxTask
Users == 1..MaxUser
Subs == 1..MaxSubs
Calls == 1..MaxCalls
Keys == Tasks \X Users

-----------------------------------------------------------------------------
(* Program constants *)

MINUTE_MS == 60 * 1000
HOUR_MS == 60 * 60 * 1000
DAY_MS == 24 * 60 * 60 * 1000
COOLDOWN_DURATION == 30 * 60 * 1000
SYNC_INTERVAL == 30 * 1000
STALE_MAX_AGE == 24 * 60 * 60 * 1000

\* `Date | null`: the null of a lastCompletion
NoDate == 0 - 1
\* `string | null`: the null of limitMessage and of cooldownTimeLeft
NoMessage == <<"null">>
NoTimeLeft == <<>>

\* Completions at 0 and 1 seen from these instants sit on and next to every
\* boundary: the staleness of an entry, the cooldown, the rolling hour, the
\* local midnight, the retention of the log and of the store
Instants == {0, 1, SYNC_INTERVAL + 1, COOLDOWN_DURATION + 1, HOUR_MS + 1, DAY_MS + 1}

\* hourly_limit and daily_limit of the tasks the cards are rendered for
hourlyLimitOf(t) == IF t = 1 THEN 1 ELSE 2
dailyLimitOf(t) == IF t = 1 THEN 2 ELSE 0

-----------------------------------------------------------------------------
(* Pure helpers *)

\* Math.floor for Math.ceil
FloorDiv(x, d) == x \div d

\* Math.ceil(x / d) for x >= 0, d > 0
CeilDiv(x, d) == (x + d - 1) \div d

\* new Date(t).setHours(0, 0, 0, 0): the local midnight at or before t
startOfDay(t) == t - (t % DAY_MS)

\* new Date(t).setHours(24, 0, 0, 0): the local midnight after t
nextMidnight(t) == startOfDay(t) + DAY_MS

RECURSIVE CountIf(_, _)
\* Array.prototype.filter(...).length over a sequence of booleans
CountIf(flags, i) ==
  IF i = 0 THEN 0 ELSE CountIf(flags, i - 1) + (IF flags[i] THEN 1 ELSE 0)

RECURSIVE MaxCompletedAt(_, _)
\* completedAt of the head of the descending sort, over the first i records; NoDate if none
MaxCompletedAt(rs, i) ==
  IF i = 0 THEN NoDate
  ELSE LET m == MaxCompletedAt(rs, i - 1)
       IN IF rs[i].completedAt > m THEN rs[i].completedAt ELSE m

-----------------------------------------------------------------------------
(* TaskService.getTaskCompletions: the statistics of one key *)

\* db.taskCompletions.where(['taskId','userId']).equals([taskId, userId]).toArray()
queryCompletions(db, taskId, userId) ==
  SelectSeq(db, LAMBDA c: c.taskId = taskId /\ c.userId = userId)

\* the hourly filter with > for >=
InHourStrict(c, t) == c.completedAt > t - HOUR_MS

InHour(c, t) == c.completedAt >= t - HOUR_MS
InDay(c, t) == c.completedAt >= startOfDay(t)

\* the catch returning the epoch for the missing date
FailOpenStatsEpoch == [hourly |-> 0, daily |-> 0, lastCompletion |-> 0]

FailOpenStats == [hourly |-> 0, daily |-> 0, lastCompletion |-> NoDate]

getTaskCompletions(db, taskId, userId, t, ok) ==
  IF ~ok THEN FailOpenStats
  ELSE LET cs == queryCompletions(db, taskId, userId)
       IN [hourly |-> CountIf([i \in 1..Len(cs) |-> InHour(cs[i], t)], Len(cs)),
           daily |-> CountIf([i \in 1..Len(cs) |-> InDay(cs[i], t)], Len(cs)),
           lastCompletion |-> MaxCompletedAt(cs, Len(cs))]

-----------------------------------------------------------------------------
(* TaskService.recordTaskCompletion: the two table operations *)

\* the delete with belowOrEqual for below
pruneOldInclusive(db, t) == SelectSeq(db, LAMBDA c: ~(c.completedAt <= t - DAY_MS))

\* the delete left out
pruneSkipped(db, t) == db

\* db.taskCompletions.where('completedAt').below(oneDayAgo).delete()
pruneOld(db, t) == SelectSeq(db, LAMBDA c: ~(c.completedAt < t - DAY_MS))

\* the add issued twice
addCompletionTwice(db, taskId, userId, t) ==
  db \o << [taskId |-> taskId, userId |-> userId, completedAt |-> t],
           [taskId |-> taskId, userId |-> userId, completedAt |-> t] >>

\* db.taskCompletions.add({taskId, userId, completedAt: new Date()})
addCompletion(db, taskId, userId, t) ==
  Append(db, [taskId |-> taskId, userId |-> userId, completedAt |-> t])

-----------------------------------------------------------------------------
(* The task completion store *)

\* the store writing the entry without stamping it
updateCompletionsUnstamped(cs, taskId, userId, data, t) ==
  [k \in DOMAIN cs \cup {<<taskId, userId>>} |->
     IF k = <<taskId, userId>>
     THEN [hourly |-> data.hourly, daily |-> data.daily,
           lastCompletion |-> t, lastSync |-> 0]
     ELSE cs[k]]

\* updateCompletions(taskId, userId, {hourly, daily})
updateCompletions(cs, taskId, userId, data, t) ==
  [k \in DOMAIN cs \cup {<<taskId, userId>>} |->
     IF k = <<taskId, userId>>
     THEN [hourly |-> data.hourly, daily |-> data.daily,
           lastCompletion |-> t, lastSync |-> t]
     ELSE cs[k]]

\* clearStaleData()
clearStaleData(cs, t) ==
  [k \in {j \in DOMAIN cs : ~(t - cs[j].lastSync > STALE_MAX_AGE)} |-> cs[k]]

\* completions[key] as the set of at most one entry (undefined = {})
lookup(cs, taskId, userId) ==
  IF <<taskId, userId>> \in DOMAIN cs THEN {cs[<<taskId, userId>>]} ELSE {}

-----------------------------------------------------------------------------
(* useTaskCooldown: the decision of checkLimits *)

\* useState's initial TaskLimits
InitialLimits ==
  [isOnCooldown |-> FALSE, cooldownTimeLeft |-> NoTimeLeft,
   hourlyCompletions |-> 0, dailyCompletions |-> 0,
   canComplete |-> TRUE, limitMessage |-> NoMessage]

\* the cooldown one millisecond short
cooldownActiveShort(last, t) == last # NoDate /\ t - last < COOLDOWN_DURATION - 1

\* the cooldown test with <= for <
cooldownActiveInclusive(last, t) == last # NoDate /\ t - last <= COOLDOWN_DURATION

\* lastCompletion && now - lastCompletion.getTime() < COOLDOWN_DURATION
cooldownActive(last, t) == last # NoDate /\ t - last < COOLDOWN_DURATION

\* the hourly check with > for >=
hourlyReachedStrict(hourly, hourlyLimit) == hourlyLimit > 0 /\ hourly > hourlyLimit

hourlyReached(hourly, hourlyLimit) == hourlyLimit > 0 /\ hourly >= hourlyLimit

\* the daily check with > for >=
dailyReachedStrict(daily, dailyLimit) == dailyLimit > 0 /\ daily > dailyLimit

dailyReached(daily, dailyLimit) == dailyLimit > 0 /\ daily >= dailyLimit

\* the three checks as an if / else if chain: the first that fires sets the
\* message
evaluateFirstWins(stats, hourlyLimit, dailyLimit, t) ==
  LET onCooldown == cooldownActive(stats.lastCompletion, t)
      minutesLeft == CeilDiv(COOLDOWN_DURATION - (t - stats.lastCompletion), MINUTE_MS)
      hourlyHit == hourlyReached(stats.hourly, hourlyLimit)
      dailyHit == dailyReached(stats.daily, dailyLimit)
  IN [isOnCooldown |-> onCooldown,
      cooldownTimeLeft |-> IF onCooldown THEN <<minutesLeft>> ELSE NoTimeLeft,
      hourlyCompletions |-> stats.hourly,
      dailyCompletions |-> stats.daily,
      canComplete |-> ~(onCooldown \/ hourlyHit \/ dailyHit),
      limitMessage |->
        IF onCooldown THEN <<"cooldown", minutesLeft>>
        ELSE IF hourlyHit
             THEN <<"hourly", hourlyLimit, CeilDiv((t + HOUR_MS) - t, MINUTE_MS)>>
        ELSE IF dailyHit
             THEN <<"daily", dailyLimit, CeilDiv(nextMidnight(t) - t, HOUR_MS)>>
        ELSE NoMessage]

\* the minutes of the hourly message counted to one hour after the last
\* completion
evaluateResetFromLast(stats, hourlyLimit, dailyLimit, t) ==
  LET onCooldown == cooldownActive(stats.lastCompletion, t)
      minutesLeft == CeilDiv(COOLDOWN_DURATION - (t - stats.lastCompletion), MINUTE_MS)
      msg1 == IF onCooldown THEN <<"cooldown", minutesLeft>> ELSE NoMessage
      can1 == IF onCooldown THEN FALSE ELSE TRUE
      hourlyHit == hourlyReached(stats.hourly, hourlyLimit)
      minutesUntilReset == CeilDiv((stats.lastCompletion + HOUR_MS) - t, MINUTE_MS)
      msg2 == IF hourlyHit THEN <<"hourly", hourlyLimit, minutesUntilReset>> ELSE msg1
      can2 == IF hourlyHit THEN FALSE ELSE can1
      dailyHit == dailyReached(stats.daily, dailyLimit)
      hoursUntilReset == CeilDiv(nextMidnight(t) - t, HOUR_MS)
      msg3 == IF dailyHit THEN <<"daily", dailyLimit, hoursUntilReset>> ELSE msg2
      can3 == IF dailyHit THEN FALSE ELSE can2
  IN [isOnCooldown |-> onCooldown,
      cooldownTimeLeft |-> IF onCooldown THEN <<minutesLeft>> ELSE NoTimeLeft,
      hourlyCompletions |-> stats.hourly,
      dailyCompletions |-> stats.daily,
      canComplete |-> can3,
      limitMessage |-> msg3]

\* the three checks in the order of the code, each overwriting the former
evaluate(stats, hourlyLimit, dailyLimit, t) ==
  LET onCooldown == cooldownActive(stats.lastCompletion, t)
      minutesLeft == CeilDiv(COOLDOWN_DURATION - (t - stats.lastCompletion), MINUTE_MS)
      msg1 == IF onCooldown THEN <<"cooldown", minutesLeft>> ELSE NoMessage
      can1 == IF onCooldown THEN FALSE ELSE TRUE
      hourlyHit == hourlyReached(stats.hourly, hourlyLimit)
      minutesUntilReset == CeilDiv((t + HOUR_MS) - t, MINUTE_MS)
      msg2 == IF hourlyHit THEN <<"hourly", hourlyLimit, minutesUntilReset>> ELSE msg1
      can2 == IF hourlyHit THEN FALSE ELSE can1
      dailyHit == dailyReached(stats.daily, dailyLimit)
      hoursUntilReset == CeilDiv(nextMidnight(t) - t, HOUR_MS)
      msg3 == IF dailyHit THEN <<"daily", dailyLimit, hoursUntilReset>> ELSE msg2
      can3 == IF dailyHit THEN FALSE ELSE can2
  IN [isOnCooldown |-> onCooldown,
      cooldownTimeLeft |-> IF onCooldown THEN <<minutesLeft>> ELSE NoTimeLeft,
      hourlyCompletions |-> stats.hourly,
      dailyCompletions |-> stats.daily,
      canComplete |-> can3,
      limitMessage |-> msg3]

\* the staleness test with >= for >
needsFetchAtInterval(stored, t) ==
  stored = {} \/ \E e \in stored : t - e.lastSync >= SYNC_INTERVAL

\* the staleness test left out: the table is read only without an entry
needsFetchMissingOnly(stored, t) == stored = {}

\* !storedCompletion || now - storedCompletion.lastSync > SYNC_INTERVAL
needsFetch(stored, t) ==
  stored = {} \/ \E e \in stored : t - e.lastSync > SYNC_INTERVAL

\* the else branch without the entry's lastCompletion
storedStatsNoDate(stored) ==
  LET e == CHOOSE x \in stored : TRUE
  IN [hourly |-> e.hourly, daily |-> e.daily, lastCompletion |-> NoDate]

\* the else branch: the statistics taken from the stored entry
storedStats(stored) ==
  LET e == CHOOSE x \in stored : TRUE
  IN [hourly |-> e.hourly, daily |-> e.daily, lastCompletion |-> e.lastCompletion]

-----------------------------------------------------------------------------
(* useTaskCooldown: the effect, its closure and checkLimits *)

\* what one run of the effect closes over: taskId, user?.id, the limits,
\* lastUpdate and completions[key] as rendered
closureOf(p, u, cs, lu) ==
  [active |-> TRUE, taskId |-> p.taskId, userId |-> u,
   hourlyLimit |-> p.hourlyLimit, dailyLimit |-> p.dailyLimit,
   lastUpdate |-> lu, stored |-> lookup(cs, p.taskId, u)]

NoClosure ==
  [active |-> FALSE, taskId |-> 0, userId |-> 0, hourlyLimit |-> 0,
   dailyLimit |-> 0, lastUpdate |-> 0, stored |-> {}]

NoProps == [taskId |-> 0, hourlyLimit |-> 0, dailyLimit |-> 0]

\* the dependency array without lastUpdate
effectDepsNoUpdate(taskId, userId, hourlyLimit, dailyLimit, lu) ==
  <<taskId, userId, hourlyLimit, dailyLimit>>

\* the dependency array [taskId, user?.id, hourlyLimit, dailyLimit, lastUpdate]
effectDeps(taskId, userId, hourlyLimit, dailyLimit, lu) ==
  <<taskId, userId, hourlyLimit, dailyLimit, lu>>

\* React re-runs the effect when a dependency differs from the last run's
depsChanged(s) ==
  /\ mounted[s]
  /\ effectDeps(eff[s].taskId, eff[s].userId, eff[s].hourlyLimit,
                eff[s].dailyLimit, eff[s].lastUpdate)
       # effectDeps(props[s].taskId, user, props[s].hourlyLimit,
                    props[s].dailyLimit, lastUpdate)

\* how old the stored entry was when an evaluation looked at it, relative to
\* SYNC_INTERVAL ("none": no entry)
ageOf(stored, t) ==
  IF stored = {} THEN "none"
  ELSE LET e == CHOOSE x \in stored : TRUE
       IN IF t - e.lastSync < SYNC_INTERVAL THEN "below"
          ELSE IF t - e.lastSync = SYNC_INTERVAL THEN "at" ELSE "above"

\* the completedAt of the newest record of a task and user in the table
newestOf(db, taskId, userId) ==
  MaxCompletedAt(queryCompletions(db, taskId, userId),
                 Len(queryCompletions(db, taskId, userId)))

\* the specifications that start from AuditProbe keep the history of each
\* decision; the others keep only the branch it took
AuditProbe == [fn |-> "audit", result |-> {}]
auditing == probe.fn = "audit"

\* where the statistics of a published decision came from: the branch taken
\* ("cache" or "log") and the age of the entry the evaluation looked at;
\* when auditing also the user it was made for, whether the read of the
\* table succeeded, and the newest record of the key the table held when the
\* decision was taken
evaluation(source, age, userId, ok, newest) ==
  [source |-> source, age |-> age,
   history |-> IF auditing
               THEN {[userId |-> userId, ok |-> ok, newest |-> newest]}
               ELSE {}]

\* an evaluation waiting for TaskService.getTaskCompletions
fetchOf(cl, t) ==
  [now |-> t, taskId |-> cl.taskId, userId |-> cl.userId,
   hourlyLimit |-> cl.hourlyLimit, dailyLimit |-> cl.dailyLimit,
   age |-> ageOf(cl.stored, t)]

\* checkLimits without its guard
bailsOutNever(cl) == FALSE

\* if (!user?.id || !taskId) return
bailsOut(cl) == cl.userId = 0 \/ cl.taskId = 0

\* checkLimits() up to its first await, run with closure cl at time t by
\* subscriber s whose state is (lim, inf): the new store, decision, evaluation
\* record and in-flight fetches
checkLimits(s, cl, t, lim, inf) ==
  IF bailsOut(cl)
  THEN [completions |-> completions, limits |-> lim, info |-> inf,
        pending |-> pending[s]]
  ELSE IF needsFetch(cl.stored, t)
  THEN [completions |-> clearStaleData(completions, t), limits |-> lim,
        info |-> inf, pending |-> pending[s] \cup {fetchOf(cl, t)}]
  ELSE [completions |-> clearStaleData(completions, t),
        limits |-> evaluate(storedStats(cl.stored), cl.hourlyLimit,
                            cl.dailyLimit, t),
        info |-> {evaluation("cache", ageOf(cl.stored, t), cl.userId, TRUE,
                             newestOf(log, cl.taskId, cl.userId))},
        pending |-> pending[s]]

\* the part of a step that runs checkLimits and stores what it did
RunCheck(s, cl, lim, inf) ==
  LET r == checkLimits(s, cl, now, lim, inf)
  IN /\ Cardinality(r.pending) <= MaxPending
     /\ completions' = r.completions
     /\ limits' = [limits EXCEPT ![s] = r.limits]
     /\ info' = [info EXCEPT ![s] = r.info]
     /\ pending' = [pending EXCEPT ![s] = r.pending]

\* an effect that sets no interval
setIntervalSkipped(ivs, cl) == ivs

\* intervalId = setInterval(checkLimits, SYNC_INTERVAL), checkLimits being the
\* one of closure cl
setInterval(ivs, cl) == ivs \cup {cl}

\* a cleanup that clears nothing
clearIntervalSkipped(ivs, cl) == ivs

\* clearInterval(intervalId) of the effect run with closure cl
clearInterval(ivs, cl) == ivs \ {cl}

\* a TaskCard is rendered: useState's initial value, then the effect runs
Mount(s, t) ==
  /\ ~mounted[s]
  /\ pending[s] = {}
  /\ mounted' = [mounted EXCEPT ![s] = TRUE]
  /\ props' = [props EXCEPT ![s] =
                 [taskId |-> t, hourlyLimit |-> hourlyLimitOf(t),
                  dailyLimit |-> dailyLimitOf(t)]]
  /\ eff' = [eff EXCEPT ![s] = closureOf(props'[s], user, completions, lastUpdate)]
  /\ RunCheck(s, eff'[s], InitialLimits, {})
  /\ intervals' = [intervals EXCEPT ![s] = setInterval(@, eff'[s])]
  /\ UNCHANGED <<probe, now, user, log, lastUpdate, calls>>

\* the effect's cleanup on unmount: clearInterval(intervalId)
Unmount(s) ==
  /\ mounted[s]
  /\ mounted' = [mounted EXCEPT ![s] = FALSE]
  /\ props' = [props EXCEPT ![s] = NoProps]
  /\ eff' = [eff EXCEPT ![s] = NoClosure]
  /\ limits' = [limits EXCEPT ![s] = InitialLimits]
  /\ info' = [info EXCEPT ![s] = {}]
  /\ intervals' = [intervals EXCEPT ![s] = clearInterval(@, eff[s])]
  /\ UNCHANGED <<probe, now, user, log, completions, lastUpdate, calls, pending>>

\* a dependency changed: cleanup, then the effect runs again with the values
\* of this render: checkLimits() and a new interval
EffectRun(s) ==
  /\ depsChanged(s)
  /\ eff' = [eff EXCEPT ![s] = closureOf(props[s], user, completions, lastUpdate)]
  /\ RunCheck(s, eff'[s], limits[s], info[s])
  /\ intervals' = [intervals EXCEPT ![s] = setInterval(clearInterval(@, eff[s]), eff'[s])]
  /\ UNCHANGED <<probe, now, user, log, lastUpdate, calls, mounted, props>>

\* an interval that was set and not cleared fires: checkLimits with the
\* closure of the effect run that set it
Tick(s) ==
  /\ \E cl \in intervals[s] : RunCheck(s, cl, limits[s], info[s])
  /\ UNCHANGED <<probe, intervals, now, user, log, lastUpdate, calls, mounted, props, eff>>

\* getTaskCompletions resolves: the rest of checkLimits, then setLimits
\* (which does nothing on a component that was unmounted meanwhile)
CheckFinish(s, p, ok) ==
  /\ p \in pending[s]
  /\ pending' = [pending EXCEPT ![s] = @ \ {p}]
  /\ LET stats == getTaskCompletions(log, p.taskId, p.userId, p.now, ok)
     IN IF mounted[s]
        THEN /\ limits' = [limits EXCEPT ![s] =
                             evaluate(stats, p.hourlyLimit, p.dailyLimit, p.now)]
             /\ info' = [info EXCEPT ![s] =
                           {evaluation("log", p.age, p.userId, ok,
                                       newestOf(log, p.taskId, p.userId))}]
        ELSE UNCHANGED <<limits, info>>
  /\ UNCHANGED <<probe, intervals, now, user, log, completions, lastUpdate, calls, mounted, props, eff>>

-----------------------------------------------------------------------------
(* TaskCard.handleClick, TaskDetails.handleSubmit and                       *)
(* TaskService.submitTask, one step per await                               *)

\* a task details view and its call of submitTask: where it is (pc), the task
\* it shows, the user id the profile lookup returned, and what happened so
\* far: the decision and the size of the table at the click that opened it,
\* for whom and how that decision had been evaluated (vetted),
\* whether the API accepted the submission, the records the call added, the
\* error caught and the message of the Error thrown to handleSubmit
\* what the catch of submitTask reads of an error: the message of the
\* server's response (error.response?.data?.parsed?.message) and the error's
\* own message, each possibly undefined
NoText == [defined |-> FALSE, text |-> ""]
Text(str) == [defined |-> TRUE, text |-> str]
NoError == [server |-> NoText, own |-> NoText]

\* new Error('Invalid response format'), thrown on a response without
\* success or data
InvalidResponse == [server |-> NoText, own |-> Text("Invalid response format")]

\* the errors api.post rejects with, and the invalid response
PostErrors ==
  [server : {NoText, Text(""), Text("Task already submitted")},
   own : {NoText, Text("Request failed with status code 400")}]
    \cup {InvalidResponse}

\* the error of a failed IndexedDB operation, rethrown by recordTaskCompletion
StorageError == [server |-> NoText, own |-> Text("QuotaExceededError")]

\* a || b: the first operand unless it is undefined or empty
truthy(m) == m.defined /\ m.text # ""

\* the catch preferring the error's own message
submitErrorOwnFirst(e) ==
  IF truthy(e.own) THEN e.own.text
  ELSE IF truthy(e.server) THEN e.server.text
  ELSE "Failed to submit task"

\* error.response?.data?.parsed?.message || error.message || 'Failed to submit task'
submitError(e) ==
  IF truthy(e.server) THEN e.server.text
  ELSE IF truthy(e.own) THEN e.own.text
  ELSE "Failed to submit task"

IdleCall ==
  [pc |-> "idle", taskId |-> 0, uid |-> 0, accepted |-> FALSE, appended |-> 0,
   passed |-> FALSE, seen |-> 0, vetted |-> <<>>, error |-> NoError, thrown |-> ""]

inProgress(c) == calls[c].pc \notin {"idle", "details"}

\* for whom the decision clicked on was evaluated, and whether from a read
\* that succeeded, when the table has received no record of that key since
\* (<<>> otherwise, and for the initial decision)
vettedBy(inf, taskId) ==
  LET hs == {h \in UNION {i.history : i \in inf} :
               h.newest = newestOf(log, taskId, h.userId)}
  IN IF hs = {} THEN <<>>
     ELSE LET h == CHOOSE x \in hs : TRUE IN <<h.userId, h.ok>>

\* handleClick without the canComplete test
clickAllowedAlways(lim) == TRUE

\* if (!canComplete) { toast.error(...); return; }
clickAllowed(lim) == lim.canComplete

\* the card of subscriber s is clicked: handleClick calls onClick() when the
\* published decision allows it, and the details of the task are shown
HandleClick(s, c) ==
  /\ mounted[s]
  /\ calls[c].pc = "idle"
  /\ clickAllowed(limits[s])
  /\ calls' = [calls EXCEPT ![c] =
                 [IdleCall EXCEPT !.pc = "details", !.taskId = props[s].taskId,
                                  !.passed = limits[s].canComplete, !.seen = Len(log),
                                  !.vetted = vettedBy(info[s], props[s].taskId)]]
  /\ UNCHANGED <<probe, intervals, now, user, log, completions, lastUpdate,
                 mounted, props, limits, eff, pending, info>>

\* onBack: the details are left without a submission
Back(c) ==
  /\ calls[c].pc = "details"
  /\ calls' = [calls EXCEPT ![c] = IdleCall]
  /\ UNCHANGED <<probe, intervals, now, user, log, completions, lastUpdate,
                 mounted, props, limits, eff, pending, info>>

\* handleSubmit with a file selected and the image uploaded: it calls
\* TaskService.submitTask(task.id, uploadedUrl) and api.post is sent
SubmitTask(c) ==
  /\ calls[c].pc = "details"
  /\ user # 0
  /\ calls[c].taskId # 0
  /\ Len(log) + Cardinality({d \in Calls : inProgress(d)}) < MaxLog
  /\ lastUpdate + Cardinality({d \in Calls : inProgress(d)}) < MaxUpdates
  /\ calls' = [calls EXCEPT ![c].pc = "posting"]
  /\ UNCHANGED <<probe, intervals, now, user, log, completions, lastUpdate,
                 mounted, props, limits, eff, pending, info>>

\* a rejection that does not throw: the call goes on to record
afterPostUnchecked(call, ok, token) ==
  IF token = 0 THEN [call EXCEPT !.pc = "ok", !.accepted = ok]
  ELSE [call EXCEPT !.pc = "profile", !.accepted = ok]

\* where submitTask goes once api.post has settled: a rejection or an invalid
\* response throws; otherwise getCurrentUserId() is called, which returns null
\* at once without a token
afterPost(call, ok, token) ==
  IF ~ok THEN [call EXCEPT !.pc = "rejected"]
  ELSE IF token = 0 THEN [call EXCEPT !.pc = "ok", !.accepted = TRUE]
  ELSE [call EXCEPT !.pc = "profile", !.accepted = TRUE]

\* what the catch of submitTask throws for the error e it caught
throwing(call, e) ==
  IF call.pc \in {"rejected", "storageFailed"}
  THEN [call EXCEPT !.error = e, !.thrown = submitError(e)]
  ELSE call

PostResponse(c, ok) ==
  /\ calls[c].pc = "posting"
  /\ \E e \in PostErrors :
       calls' = [calls EXCEPT ![c] = throwing(afterPost(@, ok, user), e)]
  /\ UNCHANGED <<probe, intervals, now, user, log, completions, lastUpdate,
                 mounted, props, limits, eff, pending, info>>

\* response.data.parsed?.data?.id || null, and null when the request fails
profileId(got, token) == IF got THEN token ELSE 0

\* if (userId) { await this.recordTaskCompletion(...) ... }: the delete is issued
afterProfile(call, id) ==
  IF id = 0 THEN [call EXCEPT !.pc = "ok"]
  ELSE [call EXCEPT !.pc = "pruning", !.uid = id]

ProfileResponse(c, got) ==
  /\ calls[c].pc = "profile"
  /\ calls' = [calls EXCEPT ![c] = afterProfile(@, profileId(got, user))]
  /\ UNCHANGED <<probe, intervals, now, user, log, completions, lastUpdate,
                 mounted, props, limits, eff, pending, info>>

\* the delete of recordTaskCompletion settles; on success the add is issued,
\* on failure the error is rethrown and submitTask throws
PruneDone(c, ok) ==
  /\ calls[c].pc = "pruning"
  /\ IF ok
     THEN /\ log' = pruneOld(log, now)
          /\ calls' = [calls EXCEPT ![c].pc = "adding"]
     ELSE /\ log' = log
          /\ calls' = [calls EXCEPT ![c] =
                         throwing([@ EXCEPT !.pc = "storageFailed"], StorageError)]
  /\ UNCHANGED <<probe, intervals, now, user, completions, lastUpdate,
                 mounted, props, limits, eff, pending, info>>

\* the add of recordTaskCompletion settles; on success getTaskCompletions is called
AddDone(c, ok) ==
  /\ calls[c].pc = "adding"
  /\ IF ok
     THEN /\ log' = addCompletion(log, calls[c].taskId, calls[c].uid, now)
          /\ calls' = [calls EXCEPT ![c].pc = "querying", ![c].appended = @ + 1]
     ELSE /\ log' = log
          /\ calls' = [calls EXCEPT ![c] =
                         throwing([@ EXCEPT !.pc = "storageFailed"], StorageError)]
  /\ UNCHANGED <<probe, intervals, now, user, completions, lastUpdate,
                 mounted, props, limits, eff, pending, info>>

\* what submitTask hands to the store once getTaskCompletions has resolved
\* hourly and daily passed the wrong way round
storeAfterSubmitSwapped(cs, call, stats, t) ==
  updateCompletions(cs, call.taskId, call.uid,
                    [hourly |-> stats.daily, daily |-> stats.hourly], t)

\* the daily count left out of the update
storeAfterSubmitHourlyOnly(cs, call, stats, t) ==
  updateCompletions(cs, call.taskId, call.uid,
                    [hourly |-> stats.hourly, daily |-> 0], t)

storeAfterSubmit(cs, call, stats, t) ==
  updateCompletions(cs, call.taskId, call.uid,
                    [hourly |-> stats.hourly, daily |-> stats.daily], t)

\* getTaskCompletions resolves (with the zero statistics on a read error),
\* the store is updated and submitTask returns the submission data
QueryDone(c, ok) ==
  /\ calls[c].pc = "querying"
  /\ LET stats == getTaskCompletions(log, calls[c].taskId, calls[c].uid, now, ok)
     IN completions' = storeAfterSubmit(completions, calls[c], stats, now)
  /\ lastUpdate' = lastUpdate + 1
  /\ calls' = [calls EXCEPT ![c].pc = "ok"]
  /\ UNCHANGED <<probe, intervals, now, user, log, mounted, props, limits, eff, pending, info>>

\* handleSubmit has taken the result or the error of submitTask: on success
\* setStatus('completed') leaves only onBack, on an error the details stay
\* as they were and the submission can be made again
Return(c) ==
  /\ calls[c].pc \in {"ok", "rejected", "storageFailed"}
  /\ calls' = [calls EXCEPT ![c] =
                 IF calls[c].pc = "ok" THEN IdleCall
                 ELSE [@ EXCEPT !.pc = "details", !.uid = 0, !.accepted = FALSE,
                                !.appended = 0, !.error = NoError, !.thrown = ""]]
  /\ UNCHANGED <<probe, intervals, now, user, log, completions, lastUpdate,
                 mounted, props, limits, eff, pending, info>>

-----------------------------------------------------------------------------
(* Authentication and the clock *)

Login(u) ==
  /\ user = 0
  /\ user' = u
  /\ UNCHANGED <<probe, intervals, now, log, completions, lastUpdate, calls,
                 mounted, props, limits, eff, pending, info>>

Logout ==
  /\ user # 0
  /\ user' = 0
  /\ UNCHANGED <<probe, intervals, now, log, completions, lastUpdate, calls,
                 mounted, props, limits, eff, pending, info>>

\* an IndexedDB operation is in flight or an effect is waiting to run
localBusy ==
  \/ \E c \in Calls : calls[c].pc \in {"pruning", "adding", "querying"}
  \/ \E s \in Subs : pending[s] # {}
  \/ \E s \in Subs : depsChanged(s)

Advance(t) ==
  /\ ~localBusy
  /\ t > now
  /\ now' = t
  /\ UNCHANGED <<probe, intervals, user, log, completions, lastUpdate, calls,
                 mounted, props, limits, eff, pending, info>>

-----------------------------------------------------------------------------
(* The system *)

NoProbe == [fn |-> "none", result |-> {}]

Init ==
  /\ now = 0
  /\ user = 0
  /\ log = <<>>
  /\ completions = <<>>
  /\ lastUpdate = 0
  /\ calls = [c \in Calls |-> IdleCall]
  /\ mounted = [s \in Subs |-> FALSE]
  /\ props = [s \in Subs |-> NoProps]
  /\ limits = [s \in Subs |-> InitialLimits]
  /\ eff = [s \in Subs |-> NoClosure]
  /\ intervals = [s \in Subs |-> {}]
  /\ pending = [s \in Subs |-> {}]
  /\ info = [s \in Subs |-> {}]
  /\ probe = NoProbe

\* the steps of subscribers S, calls C and users U, the clock moving within T,
\* the cards being those of the tasks K
SystemOf(S, C, U, T, K) ==
  \/ \E s \in S, t \in K : Mount(s, t)
  \/ \E s \in S : Unmount(s)
  \/ \E s \in S : EffectRun(s)
  \/ \E s \in S : Tick(s)
  \/ \E s \in S, ok \in BOOLEAN : \E p \in pending[s] : CheckFinish(s, p, ok)
  \/ \E s \in S, c \in C : HandleClick(s, c)
  \/ \E c \in C : Back(c)
  \/ \E c \in C : SubmitTask(c)
  \/ \E c \in C, ok \in BOOLEAN : PostResponse(c, ok)
  \/ \E c \in C, got \in BOOLEAN : ProfileResponse(c, got)
  \/ \E c \in C, ok \in BOOLEAN : PruneDone(c, ok)
  \/ \E c \in C, ok \in BOOLEAN : AddDone(c, ok)
  \/ \E c \in C, ok \in BOOLEAN : QueryDone(c, ok)
  \/ \E c \in C : Return(c)
  \/ \E u \in U : Login(u)
  \/ Logout
  \/ \E t \in T : Advance(t)

\* the same with a card of every task
System(S, C, U, T) == SystemOf(S, C, U, T, Tasks)

\* one card and one call at a time, every user and instant
Next == System({1}, {1}, Users, Instants)

Spec == Init /\ [][Next]_vars

\* every card, one call and one user, the instants around the staleness boundary
SharedNext == System(Subs, {1}, {1}, {0, 1, SYNC_INTERVAL + 1})

SharedSpec == Init /\ [][SharedNext]_vars

\* one card and every details view, one user, two instants within the cooldown
RaceNext == System({1}, Calls, {1}, {0, 1})

RaceSpec == Init /\ [][RaceNext]_vars

\* one card, of task 1 or of a task whose id is 0, one call, every user, the
\* instants around the staleness of an entry and around its removal
FrameNext == SystemOf({1}, {1}, Users, {0, SYNC_INTERVAL + 1, DAY_MS + 1}, {0, 1})

FrameSpec == Init /\ [][FrameNext]_vars

-----------------------------------------------------------------------------
(* The two pure functions applied on their own, to arguments drawn from     *)
(* bounded sets: the decision of checkLimits and the statistics of          *)
(* getTaskCompletions                                                       *)

MaxCount == 2
MaxLimit == 2
MaxProbeLog == 2

\* instants on and next to the cooldown, the hour and the midnight, seen
\* from a completion at 0, 1 or just before the midnight
EvalInstants == {0, 1, COOLDOWN_DURATION - 1, COOLDOWN_DURATION, COOLDOWN_DURATION + 1,
                 HOUR_MS + 1, DAY_MS - 1, DAY_MS, DAY_MS + 1}

StatsInstants == {0, 1, HOUR_MS, HOUR_MS + 1, DAY_MS - 1, DAY_MS, DAY_MS + 1}

Quiet ==
  /\ user = 0
  /\ log = <<>>
  /\ completions = <<>>
  /\ lastUpdate = 0
  /\ calls = [c \in Calls |-> IdleCall]
  /\ mounted = [s \in Subs |-> FALSE]
  /\ props = [s \in Subs |-> NoProps]
  /\ limits = [s \in Subs |-> InitialLimits]
  /\ eff = [s \in Subs |-> NoClosure]
  /\ intervals = [s \in Subs |-> {}]
  /\ pending = [s \in Subs |-> {}]
  /\ info = [s \in Subs |-> {}]

\* statistics, limits and an instant not before the last completion
EvalInit ==
  /\ Quiet
  /\ now \in EvalInstants
  /\ \E h \in 0..MaxCount, d \in 0..MaxCount, hl \in 0..MaxLimit, dl \in 0..MaxLimit,
        last \in {NoDate} \cup {i \in EvalInstants : i <= now} :
       probe = [fn |-> "evaluate",
                stats |-> [hourly |-> h, daily |-> d, lastCompletion |-> last],
                hourlyLimit |-> hl, dailyLimit |-> dl, result |-> {}]

Evaluate ==
  /\ probe.fn = "evaluate"
  /\ probe.result = {}
  /\ probe' = [probe EXCEPT !.result =
                 {evaluate(probe.stats, probe.hourlyLimit, probe.dailyLimit, now)}]
  /\ UNCHANGED <<now, user, log, completions, lastUpdate, calls,
                 mounted, props, limits, eff, intervals, pending, info>>

EvalSpec == EvalInit /\ [][Evaluate]_vars

\* the records a table of at most MaxProbeLog rows holds at instant t: none
\* is stamped later than t
RowsUpTo(t) ==
  [taskId : Tasks, userId : Users, completedAt : {i \in StatsInstants : i <= t}]

TablesUpTo(t) ==
  UNION {[1..n -> RowsUpTo(t)] : n \in 0..MaxProbeLog}

StatsInit ==
  /\ Quiet
  /\ now \in StatsInstants
  /\ \E db \in TablesUpTo(now), t \in Tasks, u \in Users :
       probe = [fn |-> "getTaskCompletions", db |-> db, taskId |-> t, userId |-> u,
                result |-> {}]

GetStats ==
  /\ probe.fn = "getTaskCompletions"
  /\ probe.result = {}
  /\ probe' = [probe EXCEPT !.result =
                 {getTaskCompletions(probe.db, probe.taskId, probe.userId, now, TRUE)}]
  /\ UNCHANGED <<now, user, log, completions, lastUpdate, calls,
                 mounted, props, limits, eff, intervals, pending, info>>

\* the same call with the read of the table failing
GetStatsFailed ==
  /\ probe.fn = "getTaskCompletions"
  /\ probe.result = {}
  /\ probe' = [probe EXCEPT !.fn = "readError", !.result =
                 {getTaskCompletions(probe.db, probe.taskId, probe.userId, now, FALSE)}]
  /\ UNCHANGED <<now, user, log, completions, lastUpdate, calls,
                 mounted, props, limits, eff, intervals, pending, info>>

StatsSpec == StatsInit /\ [][GetStats \/ GetStatsFailed]_vars

-----------------------------------------------------------------------------
(* The specifications that keep the history of the decisions *)

\* the initial state of the specifications that keep the history of the
\* decisions
AuditInit == Quiet /\ now = 0 /\ probe = AuditProbe

\* one card of a task without a daily limit and with an hourly limit of 2,
\* one call, one user, the instants on and next to the end of the cooldown
\* of a completion at 0
CooldownNext ==
  SystemOf({1}, {1}, {1}, {0, COOLDOWN_DURATION - 1, COOLDOWN_DURATION}, {2})

CooldownSpec == AuditInit /\ [][CooldownNext]_vars

\* one card of the task with an hourly limit of 1 and a daily limit of 2, one
\* call, one user, the instants on and next to the end of the rolling hour of
\* a completion at 0
HourlyNext == SystemOf({1}, {1}, {1}, {0, HOUR_MS, HOUR_MS + 1}, {1})

HourlySpec == AuditInit /\ [][HourlyNext]_vars

-----------------------------------------------------------------------------
(* The card under fair scheduling *)

\* the timer fires every interval that is set, a read of the table that was
\* issued settles, and React runs an effect whose dependencies changed;
\* nothing is assumed of the users, of the submissions or of the clock
LiveNext == SystemOf({1}, {1}, {1}, {0, HOUR_MS, HOUR_MS + 1}, {1})

Fairness ==
  /\ WF_vars(Tick(1))
  /\ WF_vars(\E ok \in BOOLEAN : \E p \in pending[1] : CheckFinish(1, p, ok))
  /\ WF_vars(EffectRun(1))

LiveSpec == Init /\ [][LiveNext]_vars /\ Fairness

-----------------------------------------------------------------------------
(* Properties *)

\* C1: for every statistics, limits and instant, the decision has
\* canComplete = false exactly when the cooldown is active (a last completion
\* less than 30 minutes ago), or the hourly limit is set and reached, or the
\* daily limit is set and reached
C1_CanCompleteIff ==
  \A d \in probe.result :
    LET last == probe.stats.lastCompletion
        cooling == last >= 0 /\ now - last < 1800000
        hourlyFull == probe.hourlyLimit > 0 /\ probe.stats.hourly >= probe.hourlyLimit
        dailyFull == probe.dailyLimit > 0 /\ probe.stats.daily >= probe.dailyLimit
    IN (d.canComplete = FALSE) <=> (cooling \/ hourlyFull \/ dailyFull)

\* a decision blocked by the daily limit alone, at the limit exactly
C1_Witness ==
  /\ probe.fn = "evaluate"
  /\ probe.stats.lastCompletion = NoDate
  /\ probe.hourlyLimit = 0
  /\ probe.dailyLimit = 2
  /\ probe.stats.daily = 2
  /\ \E d \in probe.result : ~d.canComplete

\* a step of call c while the remote API has not accepted it
UnacceptedStep(c) == calls'[c] # calls[c] /\ ~calls[c].accepted /\ ~calls'[c].accepted

\* C2: a submission the remote API rejects leaves the table and the store as
\* they were: no step of a call that was not accepted changes either
C2_RejectedLeavesNoTrace ==
  [][\A c \in Calls : UnacceptedStep(c) => (log' = log /\ completions' = completions)]_vars

\* a rejected call next to a table and a store that hold something
C2_Witness ==
  /\ \E c \in Calls : calls[c].pc = "rejected"
  /\ log # <<>>
  /\ DOMAIN completions # {}

\* the record call c adds
RecordOf(c) == [taskId |-> calls[c].taskId, userId |-> calls[c].uid, completedAt |-> now]

WithinDay(db, t) == SelectSeq(db, LAMBDA r : r.completedAt >= t - 86400000)

\* C4: an append at instant now leaves the former table restricted to the
\* records of every task and user with completedAt >= now - 24h, followed by
\* the new record: the delete removes exactly the older ones and the add
\* finds none of them left
C4_AppendPrunesGlobally ==
  [][\A c \in Calls :
       /\ (calls[c].pc = "pruning" /\ calls'[c].pc = "adding") => log' = WithinDay(log, now)
       /\ (calls[c].pc = "adding" /\ calls'[c].pc = "querying") =>
            log' = Append(WithinDay(log, now), RecordOf(c))]_vars

\* an append that kept another user's record of exactly 24 hours ago
C4_Witness ==
  /\ \E c \in Calls : calls[c].pc = "querying"
  /\ Len(log) = 2
  /\ log[1].completedAt = now - DAY_MS
  /\ log[1].userId # log[2].userId
  /\ log[2].completedAt = now

\* C5 as stated: every record a query returns is of the last 24 hours before
\* the query
C5_QueryWithinLastDay ==
  \A s \in Subs : \A p \in pending[s] :
    \A i \in 1..Len(log) :
      (log[i].taskId = p.taskId /\ log[i].userId = p.userId) =>
        log[i].completedAt >= p.now - DAY_MS

\* C5 as amended: the table is pruned when a record is added, against the
\* instant of the add, so every record a query returns is at most 24 hours
\* older than the newest record of the table, whenever the query runs
C5_WithinDayOfNewest ==
  \A i, j \in 1..Len(log) : log[i].completedAt >= log[j].completedAt - DAY_MS

\* a query in flight that returns a record older than 24 hours
C5_Witness ==
  \E s \in Subs : \E p \in pending[s] : \E i \in 1..Len(log) :
    /\ log[i].taskId = p.taskId
    /\ log[i].userId = p.userId
    /\ log[i].completedAt < p.now - DAY_MS

\* the local midnight at or before t
StartOfLocalDay(t) ==
  CHOOSE m \in {k * DAY_MS : k \in 0..(t \div DAY_MS)} : m <= t /\ t < m + DAY_MS

\* the rows of the probed table of the probed key stamped within [from, to]
RowsIn(from, to) ==
  {i \in 1..Len(probe.db) : /\ probe.db[i].taskId = probe.taskId
                            /\ probe.db[i].userId = probe.userId
                            /\ probe.db[i].completedAt >= from
                            /\ probe.db[i].completedAt <= to}

\* C6: the statistics computed from the table at instant now count, for the
\* key, the records of the rolling window [now - 1h, now] as hourly, those of
\* the calendar window [start of the local day, now] as daily, and give the
\* greatest completedAt of the key as lastCompletion, absent without records
C6_StatsAreWindowCounts ==
  \A r \in probe.result :
    probe.fn = "getTaskCompletions" =>
      /\ r.hourly = Cardinality(RowsIn(now - HOUR_MS, now))
      /\ r.daily = Cardinality(RowsIn(StartOfLocalDay(now), now))
      /\ IF RowsIn(0, now) = {} THEN r.lastCompletion = NoDate
         ELSE /\ \E i \in RowsIn(0, now) : r.lastCompletion = probe.db[i].completedAt
              /\ \A i \in RowsIn(0, now) : r.lastCompletion >= probe.db[i].completedAt

\* a record of the last hour stamped before the midnight, counted as hourly
\* and not as daily, next to a record of another key
C6_Witness ==
  /\ probe.fn = "getTaskCompletions"
  /\ now = DAY_MS
  /\ \E r \in probe.result : r.hourly = 1 /\ r.daily = 0 /\ r.lastCompletion = DAY_MS - 1
  /\ Len(probe.db) = 2
  /\ probe.db[1].userId # probe.db[2].userId

\* C7 as stated: from an entry's age of syncIntervalMs on, that age included,
\* an evaluation recomputes the statistics from the table
C7_RecomputedFromSyncInterval ==
  \A s \in Subs : \A i \in info[s] : i.age \in {"at", "above"} => i.source = "log"

\* C7 as amended: an entry refreshed at t0 is reused for every evaluation at
\* t0 <= t <= t0 + syncIntervalMs, t0 + syncIntervalMs included, and the
\* statistics are recomputed from the table only for t > t0 + syncIntervalMs
\* (or without an entry)
C7_ReusedThroughSyncInterval ==
  \A s \in Subs :
    /\ \A i \in info[s] : i.source = "cache" <=> i.age \in {"below", "at"}
    /\ \A p \in pending[s] : p.age \in {"none", "above"}

\* a decision published from an entry exactly syncIntervalMs old
C7_Witness ==
  \E s \in Subs : \E i \in info[s] : i.source = "cache" /\ i.age = "at"

ReRunAfterRecord(s) ==
  /\ mounted[s] /\ mounted'[s]
  /\ eff'[s] # eff[s]
  /\ user # 0
  /\ <<props[s].taskId, user>> \in DOMAIN completions
  /\ completions[<<props[s].taskId, user>>].lastSync = now

\* the records of task t and user u in the table stamped from instant from on
CountSince(t, u, from) ==
  Cardinality({i \in 1..Len(log) :
                 log[i].taskId = t /\ log[i].userId = u /\ log[i].completedAt >= from})

C10_SubscribersReEvaluate ==
  /\ [][\A c \in Calls : (calls[c].pc = "querying" /\ calls'[c].pc = "ok") =>
          \A s \in Subs :
            (mounted[s] /\ props[s].taskId = calls[c].taskId /\ user = calls[c].uid)
              => depsChanged(s)']_vars
  /\ [][\A s \in Subs : ReRunAfterRecord(s) =>
          /\ eff'[s].lastUpdate = lastUpdate
          /\ \/ (info'[s] # {} /\ \A i \in info'[s] : i.source = "cache" /\ i.age = "below")
             \/ \E p \in pending'[s] : p \notin pending[s]]_vars

\* two cards of the recorded task, both run again since the recording and
\* both on cooldown
C10_Witness ==
  /\ user # 0
  /\ lastUpdate >= 1
  /\ \A s \in Subs :
       /\ mounted[s]
       /\ eff[s].lastUpdate = lastUpdate
       /\ limits[s].isOnCooldown
       /\ \E e \in eff[s].stored : e.lastSync = now
  /\ \E s1, s2 \in Subs : s1 # s2 /\ props[s1].taskId = props[s2].taskId

\* the checks that fire on the probed statistics, limits and instant
CoolingNow ==
  probe.stats.lastCompletion >= 0 /\ now - probe.stats.lastCompletion < 1800000
HourlyFull == probe.hourlyLimit > 0 /\ probe.stats.hourly >= probe.hourlyLimit
DailyFull == probe.dailyLimit > 0 /\ probe.stats.daily >= probe.dailyLimit

\* C11: the published limitMessage is that of the last check that fired, in
\* the order cooldown, hourly, daily: the daily message when the daily limit
\* is reached, else the hourly message when the hourly limit is reached, else
\* the cooldown message on cooldown, else null
C11_LastTriggerMessage ==
  \A d \in probe.result :
    d.limitMessage[1] = IF DailyFull THEN "daily"
                        ELSE IF HourlyFull THEN "hourly"
                        ELSE IF CoolingNow THEN "cooldown"
                        ELSE "null"

\* on cooldown with the hourly limit reached and the daily not: the hourly
\* message is published
C11_Witness ==
  /\ probe.fn = "evaluate"
  /\ CoolingNow /\ HourlyFull /\ ~DailyFull
  /\ \E d \in probe.result : d.limitMessage[1] = "hourly" /\ d.isOnCooldown

\* C12: isOnCooldown is true exactly when a last completion is present and
\* less than 30 minutes old, whatever the hourly and daily checks do
C12_OnCooldownIff ==
  \A d \in probe.result :
    d.isOnCooldown <=>
      (probe.stats.lastCompletion # NoDate
         /\ now - probe.stats.lastCompletion < 30 * 60 * 1000)

\* a last completion exactly 30 minutes old with the daily limit reached:
\* blocked, and not on cooldown
C12_Witness ==
  /\ probe.fn = "evaluate"
  /\ probe.stats.lastCompletion # NoDate
  /\ now - probe.stats.lastCompletion = COOLDOWN_DURATION
  /\ DailyFull
  /\ \E d \in probe.result : ~d.isOnCooldown /\ ~d.canComplete

\* C13: the interval of a card is set when its effect runs and cleared by the
\* cleanup of that run, on unmount and before the next run: a mounted card has
\* exactly one interval, the one of its current effect run, and a card that
\* is not mounted has none, so no checkLimits of an earlier run can fire
C13_OneIntervalPerSubscription ==
  \A s \in Subs :
    /\ mounted[s] => (Cardinality(intervals[s]) = 1 /\ intervals[s] = {eff[s]})
    /\ ~mounted[s] => intervals[s] = {}

\* a card whose effect ran again for another user while the evaluation of
\* the former run is still waiting for the table
C13_Witness ==
  \E s \in Subs :
    /\ mounted[s]
    /\ \E p \in pending[s] : p.userId # eff[s].userId
    /\ intervals[s] = {eff[s]}

\* C14: when the read of the table fails, getTaskCompletions returns the
\* statistics {hourly 0, daily 0, no last completion} instead of throwing,
\* and the decision evaluated from them allows the task and is not on
\* cooldown under every pair of limits
C14_ReadErrorFailsOpen ==
  \A r \in probe.result :
    probe.fn = "readError" =>
      /\ r.hourly = 0 /\ r.daily = 0 /\ r.lastCompletion = NoDate
      /\ \A hl, dl \in 0..MaxLimit :
           /\ evaluate(r, hl, dl, now).canComplete
           /\ ~evaluate(r, hl, dl, now).isOnCooldown

\* a failed read of a table that holds a record of the key stamped now
C14_Witness ==
  /\ probe.fn = "readError"
  /\ probe.result # {}
  /\ \E i \in 1..Len(probe.db) :
       /\ probe.db[i].taskId = probe.taskId
       /\ probe.db[i].userId = probe.userId
       /\ probe.db[i].completedAt = now

\* C15: the delete and the add of one recording are a single atomic unit:
\* the table only ever changes by a whole recording, from a table to that
\* table without its records older than 24 hours and with the new record, so
\* that no state shows the delete without the add
C15_AppendIsAtomic ==
  [][log' # log =>
       \E c \in Calls : log' = Append(WithinDay(log, now), RecordOf(c))]_vars

\* C16: the limits are checked when the card is clicked and at no later
\* point: every submission under way passed the check of handleClick, on the
\* decision published then, and two submissions of one task and user that
\* passed it before either was recorded both add their record (the witness)
C16_CheckedAtClickOnly ==
  \A c \in Calls : calls[c].pc # "idle" => calls[c].passed

\* two submissions that both passed the check on an empty table and both
\* added a record of the same task and user, less than 30 minutes apart
C16_Witness ==
  \E c1, c2 \in Calls :
    /\ c1 # c2
    /\ calls[c1].passed /\ calls[c2].passed
    /\ calls[c1].seen = 0 /\ calls[c2].seen = 0
    /\ calls[c1].appended = 1 /\ calls[c2].appended = 1
    /\ Len(log) = 2
    /\ log[1].taskId = log[2].taskId
    /\ log[1].userId = log[2].userId
    /\ log[2].completedAt - log[1].completedAt < COOLDOWN_DURATION

\* C17: the lastSync of the entry of a key never decreases: an entry is
\* stamped with the instant it is written at, no entry is stamped later than
\* now, and an entry that stays is not stamped back
C17_LastSyncMonotone ==
  /\ [](\A k \in DOMAIN completions : completions[k].lastSync <= now)
  /\ [][\A k \in DOMAIN completions' :
          IF k \in DOMAIN completions
          THEN /\ completions'[k].lastSync >= completions[k].lastSync
               /\ completions'[k] # completions[k] => completions'[k].lastSync = now'
          ELSE completions'[k].lastSync = now']_vars

\* the entry of a key written a second time, at a later instant, for the
\* second record of the key
C17_Witness ==
  /\ Len(log) = 2
  /\ log[1].taskId = log[2].taskId
  /\ log[1].userId = log[2].userId
  /\ log[1].completedAt < log[2].completedAt
  /\ lastUpdate = 2
  /\ <<log[2].taskId, log[2].userId>> \in DOMAIN completions
  /\ completions[<<log[2].taskId, log[2].userId>>].lastSync = log[2].completedAt

\* the message the priority order picks: the server's when it is there and
\* not empty, else the error's own when it is there and not empty, else the
\* fixed text
PickedMessage(e) ==
  IF e.server.defined /\ e.server.text # "" THEN e.server.text
  ELSE IF e.own.defined /\ e.own.text # "" THEN e.own.text
  ELSE "Failed to submit task"

\* C18: a submission the API rejects makes submitTask throw to its caller,
\* with the server's message when there is one, else the error's own message
\* when there is one, else 'Failed to submit task'
C18_ErrorMessagePriority ==
  \A c \in Calls :
    calls[c].pc = "rejected" =>
      /\ calls[c].thrown # ""
      /\ calls[c].thrown = PickedMessage(calls[c].error)

\* a rejection carrying both a server message and a message of its own
C18_Witness ==
  \E c \in Calls :
    /\ calls[c].pc = "rejected"
    /\ calls[c].error.server.defined /\ calls[c].error.server.text # ""
    /\ calls[c].error.own.defined /\ calls[c].error.own.text # ""
    /\ calls[c].thrown = calls[c].error.server.text

\* the entry of key k is written in this step
Written(k) ==
  k \in DOMAIN completions' /\ (k \in DOMAIN completions => completions'[k] # completions[k])

\* the greatest completedAt of the records of task t and user u, NoDate
\* without one
NewestOf(t, u) ==
  LET rows == {i \in 1..Len(log) : log[i].taskId = t /\ log[i].userId = u}
  IN IF rows = {} THEN NoDate
     ELSE CHOOSE x \in {log[i].completedAt : i \in rows} :
            \A i \in rows : x >= log[i].completedAt

Swept == DOMAIN completions \ DOMAIN completions'

\* C20: a step that sweeps entries out of the store leaves the table, the
\* submissions and the entries that stay untouched, and publishes nothing
\* from a removed entry: a card of a removed key takes no decision from the
\* store in that step, and the decision an evaluation publishes after asking
\* the table shows the counts of the table (or zeros when the read failed)
C20_SweepFrame ==
  /\ [][Swept # {} =>
          /\ log' = log /\ calls' = calls /\ lastUpdate' = lastUpdate
          /\ \A k \in DOMAIN completions' : completions'[k] = completions[k]
          /\ \A s \in Subs :
               (mounted'[s] /\ <<eff'[s].taskId, eff'[s].userId>> \in Swept) =>
                 (info'[s] = info[s] /\ limits'[s] = limits[s])]_vars
  /\ [][\A s \in Subs : \A p \in pending[s] :
          (p \notin pending'[s] /\ mounted[s]) =>
            \/ /\ limits'[s].hourlyCompletions = CountSince(p.taskId, p.userId, p.now - HOUR_MS)
               /\ limits'[s].dailyCompletions =
                    CountSince(p.taskId, p.userId, StartOfLocalDay(p.now))
            \/ /\ limits'[s].hourlyCompletions = 0
               /\ limits'[s].dailyCompletions = 0
               /\ limits'[s].canComplete]_vars

\* the tick of a card has swept the entry of its key, more than 24 hours
\* old, and is asking the table, which holds a record
C20_Witness ==
  /\ DOMAIN completions = {}
  /\ lastUpdate >= 1
  /\ log # <<>>
  /\ \E s \in Subs : \E p \in pending[s] :
       p.age = "above" /\ p.now > DAY_MS /\ p.userId = log[1].userId

\* C21: whenever the cooldown check fires, the time left is 30 minutes less
\* the time since the last completion, and the minutes of cooldownTimeLeft
\* and of the cooldown message are the ceiling of that time in minutes: the
\* least whole number of minutes not below it, between 1 and 30, never 0
C21_CooldownMinutes ==
  \A d \in probe.result :
    d.isOnCooldown =>
      LET remaining == 1800000 - (now - probe.stats.lastCompletion)
      IN /\ Len(d.cooldownTimeLeft) = 1
         /\ d.cooldownTimeLeft[1] \in 1..30
         /\ d.cooldownTimeLeft[1] * 60000 >= remaining
         /\ (d.cooldownTimeLeft[1] - 1) * 60000 < remaining
         /\ d.limitMessage[1] = "cooldown" => d.limitMessage[2] = d.cooldownTimeLeft[1]

\* one millisecond of cooldown left, shown as 1 minute in the message
C21_Witness ==
  /\ probe.fn = "evaluate"
  /\ probe.stats.lastCompletion # NoDate
  /\ now - probe.stats.lastCompletion = COOLDOWN_DURATION - 1
  /\ \E d \in probe.result :
       d.isOnCooldown /\ d.cooldownTimeLeft = <<1>> /\ d.limitMessage = <<"cooldown", 1>>

\* C22: whenever the hourly message is published, its minutes until the reset
\* are those from now to now + 1 hour: 60, whatever the completedAt of the
\* records that fill the rolling hour
C22_HourlyMessageSixty ==
  \A s \in Subs :
    limits[s].limitMessage[1] = "hourly" =>
      /\ Len(limits[s].limitMessage) = 3
      /\ limits[s].limitMessage[3] = 60

\* the hourly message of a decision evaluated from the table, 60 minutes,
\* while the only record of the hour leaves it in less than 30 minutes
C22_Witness ==
  \E s \in Subs :
    /\ mounted[s]
    /\ limits[s].limitMessage = <<"hourly", props[s].hourlyLimit, 60>>
    /\ \E i \in info[s] : i.source = "log"
    /\ Len(log) = 1
    /\ log[1].taskId = props[s].taskId
    /\ log[1].userId = eff[s].userId
    /\ now - log[1].completedAt = COOLDOWN_DURATION + 1

\* C23: a submission is sent to the API for a task and user only if the
\* decision evaluated for them from the table at the moment of sending has
\* canComplete = true; the decision a card shows before its first evaluation
\* has finished lets nothing through that the table's decision would block
C23_SentOnlyIfLogAllows ==
  [][\A c \in Calls :
       (calls[c].pc = "details" /\ calls'[c].pc = "posting") =>
         evaluate(getTaskCompletions(log, calls[c].taskId, user, now, TRUE),
                  hourlyLimitOf(calls[c].taskId), dailyLimitOf(calls[c].taskId),
                  now).canComplete]_vars

\* call c records for the user its click was vetted for: the decision the
\* click passed on had been evaluated for that user after the newest record
\* of the key was added
VettedFor(c) ==
  /\ calls[c].passed
  /\ Len(calls[c].vetted) = 2
  /\ calls[c].vetted[1] = calls[c].uid

\* call c adds its record
Records(c) == calls[c].pc = "adding" /\ calls'[c].pc = "querying"

CachePublished(s) ==
  /\ mounted'[s]
  /\ info'[s] # {}
  /\ \A i \in info'[s] : i.source = "cache"
  /\ (info'[s] # info[s] \/ limits'[s] # limits[s])

\* the entry the evaluation of card s looked at is the one the store holds,
\* and no record of its key is in the table that the entry was not written
\* after
NoRecordSince(s) ==
  /\ <<eff'[s].taskId, eff'[s].userId>> \in DOMAIN completions
  /\ eff'[s].stored = {completions[<<eff'[s].taskId, eff'[s].userId>>]}
  /\ \A c \in Calls :
       ~(calls[c].pc = "querying" /\ calls[c].taskId = eff'[s].taskId
           /\ calls[c].uid = eff'[s].userId)

\* the decision evaluated for the key of card s from the table as it is now
Recomputed(s) ==
  evaluate(getTaskCompletions(log, eff'[s].taskId, eff'[s].userId, now, TRUE),
           eff'[s].hourlyLimit, eff'[s].dailyLimit, now)

C27_OnlyCurrentEvaluationPublishes ==
  [][\A s \in Subs : \A p \in pending[s] :
       (/\ p \notin pending'[s]
        /\ <<p.taskId, p.userId, p.hourlyLimit, p.dailyLimit>>
             # <<eff[s].taskId, eff[s].userId, eff[s].hourlyLimit, eff[s].dailyLimit>>)
         => (limits'[s] = limits[s] /\ info'[s] = info[s])]_vars

\* C28: a submission the API accepted makes submitTask resolve with the
\* submission data, also when the delete, the add, the profile lookup or the
\* read of the statistics fails: no accepted call ends in the catch and
\* throws to handleSubmit
C28_AcceptedNeverThrows ==
  \A c \in Calls :
    calls[c].accepted => (calls[c].pc # "storageFailed" /\ calls[c].thrown = "")

\* the table, read now, lets the user of card s complete its task: the
\* cooldown has elapsed and the counts are below the limits
Eligible(s) ==
  /\ mounted[s]
  /\ user # 0
  /\ evaluate(getTaskCompletions(log, props[s].taskId, user, now, TRUE),
              props[s].hourlyLimit, props[s].dailyLimit, now).canComplete

Allowing(lim) == lim.canComplete /\ ~lim.isOnCooldown /\ lim.limitMessage = NoMessage

\* C29: while a card stays mounted with a user signed in and no further
\* completion of its key is recorded, once the cooldown has elapsed and the
\* counts are below the limits the card comes to publish canComplete = true,
\* isOnCooldown = false and no message: the next tick finds the entry stale
\* and asks the table, and the evaluation then publishes that decision
C29_EventuallyAllowed ==
  /\ \A s \in {1} : Eligible(s) ~> (Allowing(limits[s]) \/ ~Eligible(s))
  /\ [](\A s \in {1} : (Eligible(s) /\ ~depsChanged(s)) =>
                         (eff[s].userId = user /\ needsFetch(eff[s].stored, now)))
  /\ [][\A s \in {1} : \A p \in pending[s] :
          (/\ p \notin pending'[s]
           /\ Eligible(s)
           /\ p.userId = user /\ p.taskId = props[s].taskId)
            => Allowing(limits'[s])]_vars

\* a card on cooldown from a completion an hour and a millisecond ago, which
\* the table no longer counts, before its next tick
C29_Witness ==
  /\ Eligible(1)
  /\ limits[1].isOnCooldown
  /\ pending[1] = {}
  /\ ~depsChanged(1)
  /\ Len(log) = 1
  /\ now - log[1].completedAt = HOUR_MS + 1

\* what checkLimits leaves when it does nothing
Untouched(s) ==
  [completions |-> completions, limits |-> limits[s], info |-> info[s],
   pending |-> pending[s]]

\* a tick of card s, at any moment, with a closure that has no user id or a
\* falsy taskId sweeps nothing out of the store, asks the table nothing and
\* publishes nothing
BailOutTickFrame ==
  \A s \in Subs : \A cl \in intervals[s] :
    (cl.userId = 0 \/ cl.taskId = 0) =>
      checkLimits(s, cl, now, limits[s], info[s]) = Untouched(s)

\* C30 as stated: a tick without a user id or with a falsy taskId does
\* nothing, and so a card publishes a decision only for the task and user it
\* tracks: a card that tracks no user, or a task 0, with no evaluation in
\* flight shows no decision of a former user
C30_BailOutFrameNoCarryOver ==
  /\ BailOutTickFrame
  /\ \A s \in Subs :
       (mounted[s] /\ (eff[s].userId = 0 \/ eff[s].taskId = 0) /\ pending[s] = {})
         => limits[s] = InitialLimits

\* C30 as amended: a tick, and a run of the effect, without a user id or with
\* a falsy taskId sweeps nothing, asks the table nothing and leaves the
\* published decision as it is; the decision of the user who signed out
\* therefore stays published (the witness), since nothing resets it
C30_BailOutFrame ==
  /\ []BailOutTickFrame
  /\ [][\A s \in Subs :
          (mounted[s] /\ mounted'[s] /\ eff'[s] # eff[s]
             /\ (eff'[s].userId = 0 \/ eff'[s].taskId = 0)) =>
            /\ completions' = completions
            /\ pending'[s] = pending[s]
            /\ limits'[s] = limits[s]
            /\ info'[s] = info[s]
            /\ log' = log]_vars

\* nobody is signed in, the effect has run again and its interval is set; the
\* card still shows the cooldown of the user who signed out, more than a day
\* later, next to an entry of the store a sweep would remove
C30_Witness ==
  \E s \in Subs :
    /\ mounted[s]
    /\ user = 0
    /\ eff[s].userId = 0
    /\ intervals[s] = {eff[s]}
    /\ pending[s] = {}
    /\ limits[s].isOnCooldown
    /\ \E k \in DOMAIN completions : now - completions[k].lastSync > STALE_MAX_AGE

====
